---- MODULE Spec2Model ----
(***************************************************************************)
(* Model of the MDCAT question-generation backend (src/server.js): the     *)
(* distribution calculator, the request handler of                         *)
(* POST /api/generate-questions, the retry wrapper, the three generation   *)
(* strategies and the validator.                                           *)
(*                                                                         *)
(* Conventions.                                                            *)
(*  - A JavaScript string is a TLA+ string; the value undefined is the     *)
(*    sentinel Undefined.  toLowerCase and trim are tabulated on the       *)
(*    finite universe of strings the model uses.                           *)
(*  - An error message is the sequence of its words; includes(needle) on a *)
(*    message is membership of the needle among the words, or among the    *)
(*    parts of a word that HasPart lists (GEMINI_API_KEY holds "API").     *)
(*  - Two requests at once (SpecPair): the variables hold the invocation   *)
(*    of the handler that is running, `other` the suspended one; `script`  *)
(*    fixes the upstream's answers to the calls of a request so that two   *)
(*    runs of the same request can be compared.                            *)
(*  - Math.floor(total * percentage) is computed on hundredths:            *)
(*    (total * pct) \div 100.  The IEEE-754 product total * 0.45 (0.25,    *)
(*    0.20, 0.05) has the same floor as the exact product for every total  *)
(*    in 0..2000: the doubles are >= the decimals, and the rounding error  *)
(*    is far below the 1/20 distance of a non-integer product to the next  *)
(*    integer.                                                             *)
(***************************************************************************)
EXTENDS Integers, Sequences, FiniteSets, TLC

(* ------------------------------ bounds -------------------------------- *)

\* The model may return up to MaxExtra candidates more than it was asked for.
MaxExtra == 1

\* Longest array handed to validateAndFilterQuestions on its own.
MaxInput == 3

\* Largest count of a request given any answers where completion is checked.
MaxLiveCount == 5

(* ------------------------- program constants -------------------------- *)

MaxCount == 180
MinCount == 1
SingleCallLimit == 35
SequentialThreshold == 30
MaxBatchSize == 30
BatchDivisor == 3
DefaultMaxRetries == 3
SubCallMaxRetries == 2
MinQuestionLength == 10
RequiredOptions == 4
BackoffBaseMs == 1000
BackoffCapMs == 10000
SubjectDelayMs == 1000
BatchDelayMs == 2000
DefaultYearStart == 2018
DefaultYearEnd == 2025

Undefined == "<undefined>"

\* JavaScript truthiness of a string-or-undefined value.
Falsy(s) == s = Undefined \/ s = ""

(* ------------------------------ strings ------------------------------- *)

LowerTable ==
  ("Biology" :> "biology") @@ ("BIOLOGY" :> "biology") @@
  ("Chemistry" :> "chemistry") @@ ("Physics" :> "physics") @@
  ("English" :> "english") @@ ("LOGICAL" :> "logical") @@
  ("Logical" :> "logical") @@
  ("Logical Reasoning" :> "logical reasoning") @@
  ("Botany" :> "botany") @@ ("Zoology" :> "zoology")

\* String.prototype.toLowerCase on the strings of the model.
toLowerCase(s) == IF s \in DOMAIN LowerTable THEN LowerTable[s] ELSE s

TrimTable ==
  ("   " :> "") @@ (" " :> "") @@ (" Enzymes " :> "Enzymes")

\* String.prototype.trim on the strings of the model.
trim(s) == IF s \in DOMAIN TrimTable THEN TrimTable[s] ELSE s

\* The words of the model that hold another word as a proper part.
HasPart(word, part) == word = "GEMINI_API_KEY" /\ part = "API"

\* message.includes(word) on a message held as its words.
Includes(msg, word) ==
  \E i \in 1..Len(msg) : msg[i] = word \/ HasPart(msg[i], word)

\* message.includes(phrase) for a phrase of several words.
Contains(msg, phrase) ==
  \E k \in 0..(Len(msg) - Len(phrase)) :
     \A i \in 1..Len(phrase) : msg[k + i] = phrase[i]

(* ------------------------------ syllabus ------------------------------ *)

SubjectKeys == <<"biology", "chemistry", "physics", "english", "logical">>

\* MDCAT_SYLLABUS[key].percentage, in hundredths.
Percentage ==
  [biology |-> 45, chemistry |-> 25, physics |-> 20, english |-> 5, logical |-> 5]

SyllabusKeys == DOMAIN Percentage

CanonicalNames ==
  <<"Biology", "Chemistry", "Physics", "English", "Logical Reasoning">>

(* ----------------------- calculateDistribution ------------------------ *)

\* Math.floor(total * MDCAT_SYLLABUS[key].percentage)
FloorShare(total, key) == (total * Percentage[key]) \div 100

SumShares(d) == d.biology + d.chemistry + d.physics + d.english + d.logical

\* remaining = total - currentSum
Remaining(total) ==
  total - SumShares([k \in SyllabusKeys |-> FloorShare(total, k)])

\* Variant: the loop stops one unit early (i < remaining - 1).
RemainderUnitsShort(key, remaining) ==
  Cardinality({i \in 0..(remaining - 2) :
                  SubjectKeys[(i % Len(SubjectKeys)) + 1] = key})

\* Variant: every unit goes to priorities[0].
RemainderUnitsFirst(key, remaining) ==
  IF key = SubjectKeys[1] /\ remaining > 0 THEN remaining ELSE 0

\* Variant: the priority list is walked from its end.
RemainderUnitsReversed(key, remaining) ==
  Cardinality({i \in 0..(remaining - 1) :
                  SubjectKeys[Len(SubjectKeys) - (i % Len(SubjectKeys))] = key})

\* The remainder loop: unit i (0-based) goes to priorities[i % 5].
RemainderUnits(key, remaining) ==
  Cardinality({i \in 0..(remaining - 1) :
                  SubjectKeys[(i % Len(SubjectKeys)) + 1] = key})

calculateDistribution(total) ==
  [k \in SyllabusKeys |->
     FloorShare(total, k) + RemainderUnits(k, Remaining(total))]

ZeroDistribution == [k \in SyllabusKeys |-> 0]

(* ----------------------------- candidates ----------------------------- *)

(***************************************************************************)
(* A candidate is one element of the array the model returned.  kind is    *)
(* the JavaScript type of the element ("object", "null", "number"); has is *)
(* the set of its own properties; a property that is absent holds its      *)
(* falsy default (0, "").  A string property that is only measured is held *)
(* as its length: qLen is question.length, opts[i] is options[i].length,   *)
(* with -1 for an option that is not a string.                             *)
(***************************************************************************)
FieldNames ==
  {"question", "options", "answer", "subject", "year", "topic", "difficulty", "id"}

RequiredFields == {"question", "options", "answer", "subject"}

ValidAnswers == {"A", "B", "C", "D"}

\* Variant: the answer letter is not checked.
IsValidQuestionAnyAnswer(q) ==
  /\ q.kind = "object"
  /\ RequiredFields \subseteq q.has
  /\ q.qIsString /\ q.qLen >= MinQuestionLength
  /\ q.optsIsArray /\ Len(q.opts) = RequiredOptions
  /\ \A i \in 1..Len(q.opts) : q.opts[i] > 0
  /\ q.subjIsString

\* q => typeof q === 'object', own required fields, question, options, answer, subject.
IsValidQuestion(q) ==
  /\ q.kind = "object"
  /\ RequiredFields \subseteq q.has
  /\ q.qIsString /\ q.qLen >= MinQuestionLength
  /\ q.optsIsArray /\ Len(q.opts) = RequiredOptions
  /\ \A i \in 1..Len(q.opts) : q.opts[i] > 0
  /\ q.answer \in ValidAnswers
  /\ q.subjIsString

\* questions.filter(...) of validateAndFilterQuestions; [] for an empty array.
validateAndFilterQuestions(questions) == SelectSeq(questions, IsValidQuestion)

\* An argument of validateAndFilterQuestions: an array, or something else.
ArrayInput(items) == [isArray |-> TRUE, items |-> items]
NonArrayInput == [isArray |-> FALSE, items |-> <<>>]

\* validateAndFilterQuestions with its Array.isArray guard.
validateAnyInput(input) ==
  IF ~input.isArray THEN <<>> ELSE validateAndFilterQuestions(input.items)

\* Variant: ({ id: i + 1, ...q }), an id of the candidate wins.
addIdsKeepOwn(questions) ==
  [i \in 1..Len(questions) |->
     [questions[i] EXCEPT !.id = IF "id" \in questions[i].has THEN @ ELSE i,
                          !.has = @ \cup {"id"}]]

\* questions.map((q, i) => ({ ...q, id: i + 1 }))
addIds(questions) ==
  [i \in 1..Len(questions) |->
     [questions[i] EXCEPT !.id = i, !.has = @ \cup {"id"}]]

\* distribution[q.subject] = (distribution[q.subject] || 0) + 1 on
\* distribution = {}. For the key '__proto__' the read yields Object.prototype,
\* the sum is the string '[object Object]1', and the inherited setter ignores
\* a string: the object gets no such key.
getSubjectDistribution(questions) ==
  [s \in {questions[i].subject : i \in 1..Len(questions)} \ {"__proto__"} |->
     Cardinality({i \in 1..Len(questions) : questions[i].subject = s})]

(* ----------------------------- year range ----------------------------- *)

\* A yearRange value: tag is the string ("all", "recent", "2010s", "2020s"),
\* Undefined, or "object" for {start, end}.
YearRange(tag, start, end) == [tag |-> tag, start |-> start, end |-> end]
YearUnset == YearRange(Undefined, 0, 0)
YearAll == YearRange("all", 0, 0)
Year2010s == YearRange("2010s", 0, 0)

\* null is the window with isNull; otherwise {start, end}.
Window(isNull, start, end) == [isNull |-> isNull, start |-> start, end |-> end]

normalizeYearRange(yearRange) ==
  IF yearRange.tag = Undefined \/ yearRange.tag = "all" THEN Window(TRUE, 0, 0)
  ELSE IF yearRange.tag = "recent" THEN Window(FALSE, 2020, 2025)
  ELSE IF yearRange.tag = "2010s" THEN Window(FALSE, 2010, 2019)
  ELSE IF yearRange.tag = "2020s" THEN Window(FALSE, 2020, 2025)
  ELSE IF yearRange.tag = "object" /\ yearRange.start # 0 /\ yearRange.end # 0
       THEN Window(FALSE, yearRange.start, yearRange.end)
  ELSE Window(FALSE, 2020, 2025)

\* Math.random() in thousandths: the smallest and the largest draw.
RandomDraws == {0, 999}

\* Math.floor(Math.random() * (end - start + 1)) + start
getRandomYear(yearRange, draw) ==
  LET yrs == normalizeYearRange(yearRange)
      lo == IF yrs.isNull THEN DefaultYearStart ELSE yrs.start
      hi == IF yrs.isNull THEN DefaultYearEnd ELSE yrs.end
  IN  ((draw * (hi - lo + 1)) \div 1000) + lo

(* --------------------------- model answers ---------------------------- *)

\* A prompt, reduced to the parameters buildPrompt writes into it.
Prompt(testFormat, selectedSubject, topic, questionCount) ==
  [testFormat |-> testFormat, selectedSubject |-> selectedSubject,
   topic |-> topic, questionCount |-> questionCount]

NoPrompt == Prompt(Undefined, Undefined, Undefined, 0)

\* A well-formed candidate as the schema of the prompt describes it.
GoodCandidate(subject) ==
  [kind |-> "object", has |-> FieldNames \ {"id"},
   qIsString |-> TRUE, qLen |-> 25,
   optsIsArray |-> TRUE, opts |-> <<5, 5, 5, 5>>,
   answer |-> "A", subjIsString |-> TRUE, subject |-> subject,
   year |-> 2024, topic |-> "Enzymes", difficulty |-> "easy", id |-> 0]

\* The ways a candidate can be malformed.
BadCandidates ==
  LET g == GoodCandidate("Biology") IN
  << [g EXCEPT !.opts = <<5, 5, 5>>],
     [g EXCEPT !.answer = "E"],
     [g EXCEPT !.has = @ \ {"subject"}, !.subject = ""],
     [g EXCEPT !.qLen = 9],
     [g EXCEPT !.subjIsString = FALSE, !.subject = ""],
     [g EXCEPT !.opts = <<5, 0, 5, 5>>],
     [g EXCEPT !.qIsString = FALSE, !.qLen = 0],
     [g EXCEPT !.optsIsArray = FALSE, !.opts = <<>>],
     [g EXCEPT !.opts = <<5, 5, -1, 5>>],
     [g EXCEPT !.has = @ \ {"answer"}, !.answer = ""],
     [g EXCEPT !.kind = "number", !.has = {}, !.year = 0, !.topic = "",
               !.difficulty = ""] >>

NullCandidate ==
  [GoodCandidate("") EXCEPT !.kind = "null", !.has = {}, !.year = 0,
                            !.topic = "", !.difficulty = "", !.subjIsString = FALSE]

\* The subject the prompt asks for at position i of the answer.
ExpectedSubject(p, i) ==
  IF p.testFormat = "subject-test" /\ ~Falsy(p.selectedSubject)
    THEN p.selectedSubject
  ELSE IF p.testFormat = "full-test"
    THEN LET d == calculateDistribution(p.questionCount)
             upto == [k \in 1..5 |->
                        IF k = 1 THEN d.biology
                        ELSE IF k = 2 THEN d.biology + d.chemistry
                        ELSE IF k = 3 THEN d.biology + d.chemistry + d.physics
                        ELSE IF k = 4 THEN SumShares(d) - d.logical
                        ELSE SumShares(d)]
             ks == {k \in 1..5 : i <= upto[k]}
         IN  IF ks = {} THEN CanonicalNames[5]
             ELSE CanonicalNames[CHOOSE k \in ks : \A j \in ks : k <= j]
  ELSE "Biology"

\* Subjects the model may put on a candidate instead of the expected one; the
\* last is a key that every object inherits from Object.prototype.
OffSubjects == <<"Chemistry", "biology", "Botany", "__proto__">>

AnswerPatterns == {"faithful", "offsubject", "flawed", "invalid", "noyear", "nulls"}

\* Candidate i of an answer of the given pattern to prompt p.
PatternCandidate(pattern, i, p) ==
  CASE pattern = "faithful" -> GoodCandidate(ExpectedSubject(p, i))
    [] pattern = "offsubject" -> GoodCandidate(OffSubjects[((i - 1) % Len(OffSubjects)) + 1])
    [] pattern = "flawed" ->
         IF i % 2 = 1
           THEN [GoodCandidate(ExpectedSubject(p, i)) EXCEPT
                   !.id = 900 + i, !.has = @ \cup {"id"}]
           ELSE BadCandidates[(((i \div 2) - 1) % Len(BadCandidates)) + 1]
    [] pattern = "invalid" -> BadCandidates[((i - 1) % Len(BadCandidates)) + 1]
    [] pattern = "noyear" ->
         [GoodCandidate(ExpectedSubject(p, i)) EXCEPT
            !.year = 0, !.has = @ \ {"year", "topic"}, !.topic = ""]
    [] OTHER -> NullCandidate

\* The lengths of the answers of a pattern to a prompt asking for n questions.
AnswerLens(pattern, n) ==
  CASE pattern = "faithful" -> {n + e : e \in 0..MaxExtra}
    [] pattern = "flawed" -> {4}
    [] pattern = "offsubject" -> {Len(OffSubjects)}
    [] pattern = "invalid" -> {2}
    [] OTHER -> {1}

\* The arrays the model may answer a prompt with (the parsed JSON text).
ModelAnswers(p) ==
  {[i \in 1..len |-> PatternCandidate(pattern, i, p)] :
     <<pattern, len>> \in
       UNION {{<<pt, l>> : l \in AnswerLens(pt, p.questionCount)} :
                pt \in AnswerPatterns}}

(* ------------------------------ messages ------------------------------ *)

CountError ==
  <<"Question", "count", "must", "be", "a", "number", "between", "1", "and", "180">>
TopicRequiredError == <<"Topic", "is", "required", "for", "topic-test", "format">>
SubjectRequiredError == <<"Subject", "is", "required", "for", "subject-test", "format">>
InvalidSubjectError ==
  <<"Invalid", "subject.", "Must", "be", "one", "of:",
    "biology,", "chemistry,", "physics,", "english,", "logical">>
TimeoutResponseError ==
  <<"Generation", "timeout.", "Please", "try", "with", "fewer", "questions",
    "or", "try", "again", "later.">>
UnavailableResponseError ==
  <<"AI", "service", "temporarily", "unavailable.", "Please", "try", "again",
    "in", "a", "few", "minutes.">>
NoValidResponseError ==
  <<"Failed", "to", "generate", "valid", "questions.", "Please", "try", "again",
    "with", "different", "parameters.">>
InternalResponseError == <<"Internal", "server", "error.", "Please", "try", "again.">>

\* Errors thrown by callGeminiAPI, callGeminiAPIWithRetry and buildPrompt.
TimeoutError == <<"API", "request", "timeout", "after", "45", "seconds">>
InvalidFormatError == <<"Invalid", "response", "format", "from", "Gemini", "API">>
EmptyResponseError == <<"Empty", "response", "from", "Gemini", "API">>
ParseError == <<"Failed", "to", "parse", "JSON", "response", "from", "Gemini", "API">>
StatusError == <<"API", "request", "failed", "with", "status", "500">>
FetchFailedError == <<"fetch", "failed">>
NoQuestionsError ==
  <<"No", "valid", "questions", "generated", "after", "all", "attempts">>
BuildPromptError(subject) == <<"Invalid", "subject:", subject>>
MissingKeyError == <<"GEMINI_API_KEY", "is", "required", "but", "not", "configured">>

\* error.message texts of a non-success upstream answer.
UpstreamTexts == {<<"Quota", "exceeded">>, <<"Upstream", "request", "timeout">>}

\* errorMessage = `Gemini API error: ${errorData.error.message}`
UpstreamError(text) == <<"Gemini", "API", "error:">> \o text

NoError == <<>>

\* The failures of one callGeminiAPI call other than an unparsable answer.
CallErrors ==
  {TimeoutError, InvalidFormatError, EmptyResponseError, ParseError,
   StatusError, FetchFailedError} \cup {UpstreamError(t) : t \in UpstreamTexts}

(* ------------------------------ requests ------------------------------ *)

\* req.body.count: undefined, a number, or a string holding a number.
Count(type, val) == [type |-> type, val |-> val]
CountNumber(n) == Count("number", n)

Request(count, testFormat, selectedSubject, subject, topic, yearRange) ==
  [count |-> count, testFormat |-> testFormat, selectedSubject |-> selectedSubject,
   subject |-> subject, topic |-> topic, yearRange |-> yearRange]

BadCounts ==
  {Count("undefined", 0), Count("string", 10), CountNumber(0), CountNumber(-1),
   CountNumber(MaxCount + 1), CountNumber(300)}

\* The request bodies of the model.
Requests ==
  {Request(Count("undefined", 0), Undefined, Undefined, Undefined, Undefined, YearUnset)}
  \cup {Request(c, f, "Biology", Undefined, "Enzymes", YearUnset) :
          c \in BadCounts, f \in {Undefined, "full-test", "topic-test", "subject-test"}}
  \cup {Request(CountNumber(n), f, Undefined, Undefined, Undefined, y) :
          n \in {MinCount, 10, SequentialThreshold}, f \in {Undefined, "full-test"},
          y \in {YearUnset, Year2010s}}
  \cup {Request(CountNumber(SequentialThreshold + 1), "full-test",
                Undefined, Undefined, Undefined, YearUnset)}
  \cup {Request(CountNumber(n), "topic-test", Undefined, Undefined, t, YearUnset) :
          n \in {5, MaxCount}, t \in {Undefined, "", "   ", " Enzymes ", "Enzymes"}}
  \cup {Request(CountNumber(5), "subject-test", ss, sa, Undefined, YearUnset) :
          ss \in {Undefined, "", "Biology", "chemistry", "LOGICAL",
                  "Logical Reasoning", "Botany"},
          sa \in {Undefined, "physics", "Zoology"}}
  \cup {Request(CountNumber(n), f, "Biology", Undefined, Undefined, YearUnset) :
          n \in {SingleCallLimit, SingleCallLimit + 1},
          f \in {"subject-test", "custom-test"}}

(* -------------------------------- state ------------------------------- *)

VARIABLES
  nodeEnv,       \* process.env.NODE_ENV
  geminiApiKey,  \* whether process.env.GEMINI_API_KEY is set
  script,        \* the upstream's answers to the calls of the request, in order
  self,          \* which invocation of the handler the variables below belong to
  other,         \* the variables of the other invocation of the handler
  reference,     \* the response the request got when it was served alone
  req,           \* req.body of the request being served
  pc,            \* where the handler of the request stands
  params,        \* the generation parameters of the handler
  strategy,      \* the branch generateQuestionsWithBatching took
  attempt,       \* callGeminiAPIWithRetry: attempt
  maxRetries,    \* callGeminiAPIWithRetry: maxRetries
  lastError,     \* callGeminiAPIWithRetry: lastError
  prompt,        \* the prompt of the current Retry-wrapped call
  loopIdx,       \* index of the subject (1-based) or of the batch (0-based)
  batchSize,     \* generateQuestionsWithBatching: batchSize
  numBatches,    \* generateQuestionsWithBatching: numBatches
  acc,           \* allQuestions (sequential) or results (batched)
  questions,     \* what generateQuestionsWithBatching returned to the handler
  response,      \* the response sent, NoResponse before
  nResponses,    \* number of responses sent for the request
  generationError, \* the error the handler caught around generation
  calls,         \* number of callGeminiAPI calls of the request
  fetches,       \* number of outbound fetch calls of the request
  lastWait,      \* duration of the last timer the request waited for, in ms
  distTotal,     \* argument of the last calculateDistribution call
  distribution   \* result of the last calculateDistribution call

envVars == <<nodeEnv, geminiApiKey, req, script, self, other, reference>>
retryVars == <<attempt, maxRetries, lastError, prompt>>
loopVars == <<loopIdx, batchSize, numBatches, acc>>
outVars == <<response, nResponses, generationError>>
callVars == <<calls, fetches>>
distVars == <<distTotal, distribution>>

vars ==
  <<nodeEnv, geminiApiKey, script, self, other, reference,
    req, pc, params, strategy, attempt, maxRetries,
    lastError, prompt, loopIdx, batchSize, numBatches, acc, questions, response,
    nResponses, generationError, calls, fetches, lastWait, distTotal, distribution>>

Params(testFormat, selectedSubject, topic, questionCount, yearRange) ==
  [testFormat |-> testFormat, selectedSubject |-> selectedSubject, topic |-> topic,
   questionCount |-> questionCount, yearRange |-> yearRange]

NoParams == Params(Undefined, Undefined, Undefined, 0, YearUnset)

Response(status, error, qs, generated, requested, subjectDistribution) ==
  [status |-> status, success |-> (status = 200), error |-> error,
   questions |-> qs, generated |-> generated, requested |-> requested,
   subjectDistribution |-> subjectDistribution]

\* res.status(status).json({ success: false, error })
Failure(status, error) == Response(status, error, <<>>, 0, 0, <<>>)

NoResponse == Response(0, NoError, <<>>, 0, 0, <<>>)

Min(a, b) == IF a <= b THEN a ELSE b

\* Math.ceil(a / b) for positive integers.
Ceil(a, b) == (a + b - 1) \div b

Idle ==
  /\ params = NoParams /\ strategy = "none"
  /\ attempt = 0 /\ maxRetries = 0 /\ lastError = NoError /\ prompt = NoPrompt
  /\ loopIdx = 0 /\ batchSize = 0 /\ numBatches = 0 /\ acc = <<>>
  /\ questions = <<>> /\ response = NoResponse /\ nResponses = 0
  /\ generationError = NoError
  /\ calls = 0 /\ fetches = 0 /\ lastWait = 0
  /\ distTotal = 0 /\ distribution = ZeroDistribution

\* if (!process.env.GEMINI_API_KEY) { if (NODE_ENV !== 'test') process.exit(1) }
\* A server that is running has the key, or runs in test mode.
ServerStarted == geminiApiKey \/ nodeEnv = "test"

\* No script: the upstream answers every call as it likes.
NoScript == <<>>

\* No other invocation of the handler is in progress.
NoOther == [pc |-> "none"]

\* A request has arrived at a running server.
Init ==
  /\ nodeEnv \in {"test", "production"}
  /\ geminiApiKey \in BOOLEAN
  /\ ServerStarted
  /\ script = NoScript /\ self = 1 /\ other = NoOther /\ reference = NoResponse
  /\ req \in Requests
  /\ pc = "received"
  /\ Idle

(* -------------------------- request validation ------------------------ *)

\* Variant: the typeof test is missing.
CountInvalidUntyped(count) ==
  \/ count.type = "undefined"
  \/ count.val < MinCount
  \/ count.val > MaxCount

\* !count || typeof count !== 'number' || count < 1 || count > 180
CountInvalid(count) ==
  \/ count.type = "undefined"
  \/ (count.type = "number" /\ count.val = 0)
  \/ count.type # "number"
  \/ count.val < MinCount
  \/ count.val > MaxCount

\* const finalSubject = selectedSubject || subject
FinalSubject(body) ==
  IF ~Falsy(body.selectedSubject) THEN body.selectedSubject ELSE body.subject

\* The params object the handler builds from the body.
ParamsOf(body) ==
  Params(IF Falsy(body.testFormat) THEN "full-test" ELSE body.testFormat,
         FinalSubject(body), body.topic, body.count.val,
         IF body.yearRange.tag = Undefined THEN YearAll ELSE body.yearRange)

\* Variant: the topic is not trimmed before it is measured.
TopicMissingUntrimmed(p) == Falsy(p.topic)

\* !params.topic || params.topic.trim().length === 0
TopicMissing(p) == Falsy(p.topic) \/ trim(p.topic) = ""

ValidSubjects == {"biology", "chemistry", "physics", "english", "logical"}

\* Variant: the subject is compared without toLowerCase().
SubjectInvalidCased(p) == p.selectedSubject \notin ValidSubjects

\* !validSubjects.includes(params.selectedSubject.toLowerCase())
SubjectInvalid(p) == toLowerCase(p.selectedSubject) \notin ValidSubjects

\* The 400 error the handler answers the body with, NoError when it accepts it.
ValidationError(body) ==
  LET p == ParamsOf(body) IN
  IF CountInvalid(body.count) THEN CountError
  ELSE IF p.testFormat = "topic-test" /\ TopicMissing(p) THEN TopicRequiredError
  ELSE IF p.testFormat = "subject-test" /\ Falsy(p.selectedSubject)
    THEN SubjectRequiredError
  ELSE IF p.testFormat = "subject-test" /\ SubjectInvalid(p) THEN InvalidSubjectError
  ELSE NoError

\* res.status(...).json(...)
Send(r) ==
  /\ response' = r
  /\ nResponses' = nResponses + 1
  /\ pc' = "done"
  /\ UNCHANGED generationError

\* The handler up to the call of generateQuestionsWithBatching.
ValidateRequest ==
  /\ pc = "received"
  /\ IF ValidationError(req) # NoError
       THEN /\ Send(Failure(400, ValidationError(req)))
            /\ UNCHANGED params
       ELSE /\ params' = [ParamsOf(req) EXCEPT
                            !.topic = IF ParamsOf(req).testFormat = "topic-test"
                                        THEN trim(@) ELSE @]
            /\ pc' = "generate"
            /\ UNCHANGED outVars
  /\ UNCHANGED <<envVars, strategy, retryVars, loopVars, questions, callVars,
                 lastWait, distVars>>

(* ------------------------------ buildPrompt --------------------------- *)

\* buildPrompt throws `Invalid subject` when the subject-test branch finds
\* no MDCAT_SYLLABUS entry for selectedSubject.toLowerCase().
BuildPromptThrows(p) ==
  /\ p.testFormat = "subject-test"
  /\ ~Falsy(p.selectedSubject)
  /\ toLowerCase(p.selectedSubject) \notin SyllabusKeys

buildPrompt(p) == Prompt(p.testFormat, p.selectedSubject, p.topic, p.questionCount)

(* --------------------------- strategy selection ----------------------- *)

\* Variant: the small-count test precedes the full-test test.
StrategyOfSmallFirst(p) ==
  IF p.testFormat = "topic-test" /\ ~Falsy(p.topic) THEN "single"
  ELSE IF p.testFormat = "subject-test" /\ ~Falsy(p.selectedSubject)
          /\ p.questionCount <= SingleCallLimit THEN "single"
  ELSE IF p.questionCount <= SingleCallLimit THEN "single"
  ELSE IF p.testFormat = "full-test" /\ p.questionCount > SequentialThreshold
    THEN "sequential"
  ELSE "batched"

\* The branch of generateQuestionsWithBatching the parameters take.
StrategyOf(p) ==
  IF p.testFormat = "topic-test" /\ ~Falsy(p.topic) THEN "single"
  ELSE IF p.testFormat = "subject-test" /\ ~Falsy(p.selectedSubject)
          /\ p.questionCount <= SingleCallLimit THEN "single"
  ELSE IF p.testFormat = "full-test" /\ p.questionCount > SequentialThreshold
    THEN "sequential"
  ELSE IF p.questionCount <= SingleCallLimit THEN "single"
  ELSE "batched"

\* Variant: the 'API' test precedes the 'timeout' test.
GenerationFailureApiFirst(err) ==
  IF Includes(err, "API") THEN Failure(503, UnavailableResponseError)
  ELSE IF Includes(err, "timeout") THEN Failure(408, TimeoutResponseError)
  ELSE Failure(500, IF nodeEnv # "production" THEN err ELSE InternalResponseError)

\* The handler's reaction to an error thrown by generateQuestionsWithBatching.
GenerationFailure(err) ==
  IF Includes(err, "timeout") THEN Failure(408, TimeoutResponseError)
  ELSE IF Includes(err, "API") THEN Failure(503, UnavailableResponseError)
  ELSE Failure(500, IF nodeEnv # "production" THEN err ELSE InternalResponseError)

\* Variant: the 408 and 503 branches send without returning, so the error is
\* rethrown and the outer catch sends again.
CatchWithoutReturn(err) ==
  /\ generationError' = err
  /\ response' = Failure(500, IF nodeEnv # "production" THEN err
                                                        ELSE InternalResponseError)
  /\ nResponses' = nResponses +
                     (IF Includes(err, "timeout") \/ Includes(err, "API") THEN 2 ELSE 1)
  /\ pc' = "done"

\* catch (generationError) { ... } around generateQuestionsWithBatching.
Catch(err) ==
  /\ generationError' = err
  /\ response' = GenerationFailure(err)
  /\ nResponses' = nResponses + 1
  /\ pc' = "done"

\* Variant: the wrapper allows one attempt more than it was given.
StartWrapperExtraAttempt(p, retries) ==
  /\ prompt' = buildPrompt(p)
  /\ attempt' = 1
  /\ maxRetries' = retries + 1
  /\ lastError' = NoError
  /\ pc' = "attempt"

\* callGeminiAPIWithRetry(buildPrompt(p), retries) is entered.
StartWrapper(p, retries) ==
  /\ prompt' = buildPrompt(p)
  /\ attempt' = 1
  /\ maxRetries' = retries
  /\ lastError' = NoError
  /\ pc' = "attempt"

\* Entry of generateQuestionsWithBatching.
SelectStrategy ==
  /\ pc = "generate"
  /\ strategy' = StrategyOf(params)
  /\ CASE StrategyOf(params) = "single" ->
            /\ IF BuildPromptThrows(params)
                 THEN /\ Catch(BuildPromptError(params.selectedSubject))
                      /\ UNCHANGED retryVars
                 ELSE /\ StartWrapper(params, DefaultMaxRetries)
                      /\ UNCHANGED outVars
            /\ UNCHANGED <<loopVars, distVars>>
       [] StrategyOf(params) = "sequential" ->
            /\ distTotal' = params.questionCount
            /\ distribution' = calculateDistribution(params.questionCount)
            /\ loopIdx' = 1
            /\ pc' = "subject"
            /\ UNCHANGED <<batchSize, numBatches, acc, retryVars, outVars>>
       [] OTHER ->
            /\ batchSize' = Min(MaxBatchSize, Ceil(params.questionCount, BatchDivisor))
            /\ numBatches' =
                 Ceil(params.questionCount,
                      Min(MaxBatchSize, Ceil(params.questionCount, BatchDivisor)))
            /\ loopIdx' = 0
            /\ pc' = "batch"
            /\ UNCHANGED <<acc, retryVars, outVars, distVars>>
  /\ UNCHANGED <<envVars, params, questions, callVars, lastWait>>

(* ------------------------- sequential full test ----------------------- *)

\* subjectParams of generateSequentialFullTest for subject number k.
SubjectParams(p, k, d) ==
  [p EXCEPT !.testFormat = "subject-test", !.selectedSubject = CanonicalNames[k],
            !.questionCount = d[SubjectKeys[k]], !.topic = Undefined]

\* Head of the subject loop; after the last subject allQuestions is returned.
NextSubject ==
  /\ pc = "subject"
  /\ IF loopIdx > Len(SubjectKeys)
       THEN /\ questions' = acc
            /\ pc' = "validate"
            /\ UNCHANGED <<loopIdx, retryVars>>
       ELSE IF distribution[SubjectKeys[loopIdx]] <= 0
         THEN /\ loopIdx' = loopIdx + 1
              /\ UNCHANGED <<pc, questions, retryVars>>
         ELSE IF BuildPromptThrows(SubjectParams(params, loopIdx, distribution))
           THEN /\ pc' = "pacing"
                /\ UNCHANGED <<loopIdx, questions, retryVars>>
           ELSE /\ StartWrapper(SubjectParams(params, loopIdx, distribution),
                                SubCallMaxRetries)
                /\ UNCHANGED <<loopIdx, questions>>
  /\ UNCHANGED <<envVars, params, strategy, batchSize, numBatches, acc, outVars,
                 callVars, lastWait, distVars>>

\* Variant: the subject the model returned is kept.
CleanedQuestionsUnstamped(result, k, d, yearRange, draw) ==
  [i \in 1..Min(d[SubjectKeys[k]], Len(result)) |->
     [result[i] EXCEPT
        !.year = IF @ # 0 THEN @ ELSE getRandomYear(yearRange, draw[i]),
        !.has = @ \cup {"year"}]]

\* cleanedQuestions: slice(0, subject.count), subject stamped, year backfilled.
CleanedQuestions(result, k, d, yearRange, draw) ==
  [i \in 1..Min(d[SubjectKeys[k]], Len(result)) |->
     [result[i] EXCEPT
        !.subject = CanonicalNames[k], !.subjIsString = TRUE,
        !.year = IF @ # 0 THEN @ ELSE getRandomYear(yearRange, draw[i]),
        !.has = @ \cup {"subject", "year"}]]

(* -------------------------------- batching ---------------------------- *)

\* Variant: the accumulated list is returned whole.
SliceNone(list, n) == list

\* results.slice(0, questionCount)
Slice(list, n) == SubSeq(list, 1, Min(n, Len(list)))

\* After the try/catch of batch loopIdx: break when enough was accumulated,
\* else pace and go on to the next batch.
AfterBatch(newAcc) ==
  /\ acc' = newAcc
  /\ IF Len(newAcc) >= params.questionCount
       THEN /\ questions' = Slice(newAcc, params.questionCount)
            /\ pc' = "validate"
            /\ UNCHANGED loopIdx
       ELSE IF loopIdx < numBatches - 1
         THEN /\ pc' = "pacing"
              /\ UNCHANGED <<loopIdx, questions>>
         ELSE /\ loopIdx' = loopIdx + 1
              /\ pc' = "batch"
              /\ UNCHANGED questions

\* Variant: a batch is given the wrapper's default number of attempts.
NextBatchDefaultRetries ==
  /\ pc = "batch"
  /\ IF \/ loopIdx >= numBatches
        \/ Min(batchSize, params.questionCount - Len(acc)) <= 0
       THEN /\ questions' = Slice(acc, params.questionCount)
            /\ pc' = "validate"
            /\ UNCHANGED <<loopIdx, acc, retryVars>>
       ELSE IF BuildPromptThrows(params)
         THEN /\ AfterBatch(acc)
              /\ UNCHANGED retryVars
         ELSE /\ StartWrapper(
                   [params EXCEPT !.questionCount =
                      Min(batchSize, params.questionCount - Len(acc))],
                   DefaultMaxRetries)
              /\ UNCHANGED <<loopIdx, acc, questions>>
  /\ UNCHANGED <<envVars, params, strategy, batchSize, numBatches, outVars,
                 callVars, lastWait, distVars>>

\* Head of the batch loop.
NextBatch ==
  /\ pc = "batch"
  /\ IF \/ loopIdx >= numBatches
        \/ Min(batchSize, params.questionCount - Len(acc)) <= 0
       THEN /\ questions' = Slice(acc, params.questionCount)
            /\ pc' = "validate"
            /\ UNCHANGED <<loopIdx, acc, retryVars>>
       ELSE IF BuildPromptThrows(params)
         THEN /\ AfterBatch(acc)
              /\ UNCHANGED retryVars
         ELSE /\ StartWrapper(
                   [params EXCEPT !.questionCount =
                      Min(batchSize, params.questionCount - Len(acc))],
                   SubCallMaxRetries)
              /\ UNCHANGED <<loopIdx, acc, questions>>
  /\ UNCHANGED <<envVars, params, strategy, batchSize, numBatches, outVars,
                 callVars, lastWait, distVars>>

\* The pacing delay after a subject (1 s) or between two batches (2 s).
PacingDelay ==
  /\ pc = "pacing"
  /\ lastWait' = IF strategy = "sequential" THEN SubjectDelayMs ELSE BatchDelayMs
  /\ loopIdx' = loopIdx + 1
  /\ pc' = IF strategy = "sequential" THEN "subject" ELSE "batch"
  /\ UNCHANGED <<envVars, params, strategy, retryVars, batchSize, numBatches, acc,
                 questions, outVars, callVars, distVars>>

(* ----------------------------- callGeminiAPI -------------------------- *)

\* The fixed answer of test mode.
StubQuestions ==
  << [GoodCandidate("Biology") EXCEPT
        !.qLen = 53, !.opts = <<7, 12, 8, 21>>, !.answer = "B",
        !.topic = "Cell Structure & Function", !.difficulty = "moderate"] >>

MissingYear(list) == {i \in 1..Len(list) : list[i].year = 0}

\* One Math.random() draw for every candidate that needs a year.
Draws(list) == [MissingYear(list) -> RandomDraws]

\* result.map(q => ({ ...q, year: q.year || getRandomYear(null),
\*                    topic: q.topic || 'General',
\*                    difficulty: q.difficulty || 'moderate' }))
Backfill(parsed, draw) ==
  [i \in 1..Len(parsed) |->
     [parsed[i] EXCEPT
        !.kind = "object",
        !.year = IF @ # 0 THEN @ ELSE getRandomYear(YearUnset, draw[i]),
        !.topic = IF @ # "" THEN @ ELSE "General",
        !.difficulty = IF @ # "" THEN @ ELSE "moderate",
        !.has = @ \cup {"year", "topic", "difficulty"}]]

\* q.year of a null element throws inside both parse attempts.
HasNull(parsed) == \E i \in 1..Len(parsed) : parsed[i].kind = "null"

Returned(result) == [ok |-> TRUE, result |-> result, error |-> NoError]
Thrown(error) == [ok |-> FALSE, result |-> <<>>, error |-> error]

\* Variant: the key is looked up before the test-mode branch.
callGeminiAPIKeyFirst(p) ==
  IF ~geminiApiKey THEN {Thrown(MissingKeyError)}
  ELSE IF nodeEnv = "test" THEN {Returned(StubQuestions)}
  ELSE UNION {IF HasNull(a) THEN {Thrown(ParseError)}
              ELSE {Returned(Backfill(a, draw)) : draw \in Draws(a)} :
                a \in ModelAnswers(p) \cup {<<>>}}
       \cup {Thrown(e) : e \in CallErrors}

\* What one call callGeminiAPI(p) can come back with.
callGeminiAPI(p) ==
  IF nodeEnv = "test" THEN {Returned(StubQuestions)}
  ELSE IF ~geminiApiKey THEN {Thrown(MissingKeyError)}
  ELSE UNION {IF HasNull(a) THEN {Thrown(ParseError)}
              ELSE {Returned(Backfill(a, draw)) : draw \in Draws(a)} :
                a \in ModelAnswers(p) \cup {<<>>}}
       \cup {Thrown(e) : e \in CallErrors}

\* One entry of a script: an answer of a pattern, an empty array, or an error.
AnswerEntry(pattern) == [pattern |-> pattern, error |-> NoError, extra |-> 0]
EmptyEntry == [pattern |-> "empty", error |-> NoError, extra |-> 0]
ErrorEntry(err) == [pattern |-> "none", error |-> err, extra |-> 0]
\* An answer that holds more candidates than the prompt asked for.
SurplusEntry == [pattern |-> "faithful", error |-> NoError, extra |-> MaxExtra]

\* What callGeminiAPI(p) comes back with when the upstream answers by entry e.
ScriptedOutcome(e, p) ==
  IF e.error # NoError THEN Thrown(e.error)
  ELSE IF e.pattern = "empty" THEN Returned(<<>>)
  ELSE LET lens == AnswerLens(e.pattern, p.questionCount)
           len == (CHOOSE l \in lens : \A m \in lens : l <= m) + e.extra
           a == [i \in 1..len |-> PatternCandidate(e.pattern, i, p)]
       IN  Returned(Backfill(a, [i \in MissingYear(a) |-> 0]))

\* Outcome o is the upstream's answer to the next call of the request.
Scripted(o) ==
  IF script = NoScript THEN TRUE
  ELSE o = ScriptedOutcome(script[(calls % Len(script)) + 1], prompt)

\* An outbound fetch is issued outside test mode only.
Fetched == IF nodeEnv = "test" THEN 0 ELSE 1

(* ------------------------ callGeminiAPIWithRetry ---------------------- *)

\* lastError is a local of the wrapper: it holds the error of the last failed
\* attempt while the wrapper runs and is gone (NoError) once the wrapper has
\* returned or thrown.

\* Variant: the loops put a result in front of what they have collected.
WrapperReturnsInFront(result) ==
  /\ UNCHANGED outVars
  /\ CASE strategy = "single" ->
            /\ questions' = result
            /\ pc' = "validate"
            /\ UNCHANGED <<loopIdx, acc>>
       [] strategy = "sequential" ->
            /\ \E draw \in Draws(result) :
                 acc' = CleanedQuestions(result, loopIdx, distribution,
                                         params.yearRange, draw) \o acc
            /\ pc' = "pacing"
            /\ UNCHANGED <<loopIdx, questions>>
       [] OTHER -> AfterBatch(result \o acc)

\* The wrapper returned result to the strategy that called it.
WrapperReturns(result) ==
  /\ UNCHANGED outVars
  /\ CASE strategy = "single" ->
            /\ questions' = result
            /\ pc' = "validate"
            /\ UNCHANGED <<loopIdx, acc>>
       [] strategy = "sequential" ->
            /\ \E draw \in Draws(result) :
                 acc' = acc \o CleanedQuestions(result, loopIdx, distribution,
                                                params.yearRange, draw)
            /\ pc' = "pacing"
            /\ UNCHANGED <<loopIdx, questions>>
       [] OTHER -> AfterBatch(acc \o result)

\* Variant: the loops have no try/catch around their sub-calls.
WrapperThrowsPropagates(err) ==
  /\ Catch(err)
  /\ UNCHANGED <<loopIdx, acc, questions>>

\* The wrapper threw err: fatal to a single call, absorbed by the loops.
WrapperThrows(err) ==
  CASE strategy = "single" ->
         /\ Catch(err)
         /\ UNCHANGED <<loopIdx, acc, questions>>
    [] strategy = "sequential" ->
         /\ pc' = "pacing"
         /\ UNCHANGED <<loopIdx, acc, questions, outVars>>
    [] OTHER ->
         /\ AfterBatch(acc)
         /\ UNCHANGED outVars

CountCall ==
  /\ calls' = calls + 1
  /\ fetches' = fetches + Fetched

\* An attempt returned a non-empty array: the wrapper returns it.
CallReturnsQuestions ==
  /\ pc = "attempt"
  /\ \E o \in callGeminiAPI(prompt) :
       /\ o.ok /\ Len(o.result) > 0
       /\ Scripted(o)
       /\ WrapperReturns(o.result)
  /\ lastError' = NoError
  /\ CountCall
  /\ UNCHANGED <<envVars, params, strategy, attempt, maxRetries, prompt, batchSize,
                 numBatches, lastWait, distVars>>

\* Variant: an empty array is a result like any other.
CallReturnsEmptyAsResult ==
  /\ pc = "attempt"
  /\ \E o \in callGeminiAPI(prompt) :
       /\ o.ok /\ Len(o.result) = 0 /\ Scripted(o)
       /\ WrapperReturns(o.result)
  /\ lastError' = NoError
  /\ CountCall
  /\ UNCHANGED <<envVars, params, strategy, attempt, maxRetries, prompt, batchSize,
                 numBatches, lastWait, distVars>>

\* An attempt returned an empty array: next attempt at once, or, on the last
\* attempt, the `No valid questions` error, caught and rethrown as lastError.
CallReturnsEmpty ==
  /\ pc = "attempt"
  /\ \E o \in callGeminiAPI(prompt) : o.ok /\ Len(o.result) = 0 /\ Scripted(o)
  /\ IF attempt = maxRetries
       THEN /\ WrapperThrows(NoQuestionsError)
            /\ lastError' = NoError
            /\ UNCHANGED attempt
       ELSE /\ attempt' = attempt + 1
            /\ UNCHANGED <<pc, lastError, loopIdx, acc, questions, outVars>>
  /\ CountCall
  /\ UNCHANGED <<envVars, params, strategy, maxRetries, prompt, batchSize,
                 numBatches, lastWait, distVars>>

\* Variant: lastError keeps the error of the first failed attempt.
CallFailsFirstError ==
  /\ pc = "attempt"
  /\ \E o \in callGeminiAPI(prompt) :
       /\ ~o.ok
       /\ Scripted(o)
       /\ IF attempt = maxRetries
            THEN /\ WrapperThrows(IF lastError = NoError THEN o.error ELSE lastError)
                 /\ lastError' = NoError
            ELSE /\ lastError' = IF lastError = NoError THEN o.error ELSE lastError
                 /\ pc' = "backoff"
                 /\ UNCHANGED <<loopIdx, acc, questions, outVars>>
  /\ CountCall
  /\ UNCHANGED <<envVars, params, strategy, attempt, maxRetries, prompt,
                 batchSize, numBatches, lastWait, distVars>>

\* An attempt threw: back off and retry, or, on the last attempt, rethrow.
CallFails ==
  /\ pc = "attempt"
  /\ \E o \in callGeminiAPI(prompt) :
       /\ ~o.ok
       /\ Scripted(o)
       /\ IF attempt = maxRetries
            THEN /\ WrapperThrows(o.error)
                 /\ lastError' = NoError
            ELSE /\ lastError' = o.error
                 /\ pc' = "backoff"
                 /\ UNCHANGED <<loopIdx, acc, questions, outVars>>
  /\ CountCall
  /\ UNCHANGED <<envVars, params, strategy, attempt, maxRetries, prompt,
                 batchSize, numBatches, lastWait, distVars>>

\* 2^n
RECURSIVE Pow2(_)
Pow2(n) == IF n = 0 THEN 1 ELSE 2 * Pow2(n - 1)

\* waitTime = Math.min(Math.pow(2, attempt) * 1000, 10000)
WaitTime(n) == Min(Pow2(n) * BackoffBaseMs, BackoffCapMs)

\* The backoff timer between two attempts.
BackoffWait ==
  /\ pc = "backoff"
  /\ lastWait' = WaitTime(attempt)
  /\ attempt' = attempt + 1
  /\ pc' = "attempt"
  /\ UNCHANGED <<envVars, params, strategy, maxRetries, lastError, prompt,
                 loopVars, questions, outVars, callVars, distVars>>

(* ------------------------------- response ----------------------------- *)

\* The handler after generateQuestionsWithBatching returned.
Respond ==
  /\ pc = "validate"
  /\ LET validQuestions == validateAndFilterQuestions(questions) IN
     IF Len(validQuestions) = 0
       THEN Send(Failure(500, NoValidResponseError))
       ELSE Send(Response(200, NoError, addIds(validQuestions),
                          Len(validQuestions), req.count.val,
                          getSubjectDistribution(validQuestions)))
  /\ UNCHANGED <<envVars, params, strategy, retryVars, loopVars, questions,
                 callVars, lastWait, distVars>>

Next ==
  \/ ValidateRequest
  \/ SelectStrategy
  \/ NextSubject
  \/ NextBatch
  \/ PacingDelay
  \/ CallReturnsQuestions
  \/ CallReturnsEmpty
  \/ CallFails
  \/ BackoffWait
  \/ Respond

Spec == Init /\ [][Next]_vars

(* ---------------- calculateDistribution on its own -------------------- *)

InitDist ==
  /\ nodeEnv = "test"
  /\ geminiApiKey = TRUE
  /\ script = NoScript /\ self = 1 /\ other = NoOther /\ reference = NoResponse
  /\ generationError = NoError
  /\ req = Request(Count("undefined", 0), Undefined, Undefined, Undefined,
                   Undefined, YearUnset)
  /\ pc = "distribute"
  /\ params = NoParams /\ strategy = "none"
  /\ attempt = 0 /\ maxRetries = 0 /\ lastError = NoError /\ prompt = NoPrompt
  /\ loopIdx = 0 /\ batchSize = 0 /\ numBatches = 0 /\ acc = <<>>
  /\ questions = <<>> /\ response = NoResponse /\ nResponses = 0
  /\ calls = 0 /\ fetches = 0 /\ lastWait = 0
  /\ distTotal \in 0..MaxCount
  /\ distribution = ZeroDistribution

\* distribution = calculateDistribution(total)
Distribute ==
  /\ pc = "distribute"
  /\ distribution' = calculateDistribution(distTotal)
  /\ pc' = "distributed"
  /\ UNCHANGED <<envVars, params, strategy, retryVars, loopVars, questions,
                 outVars, callVars, lastWait, distTotal>>

NextDist == Distribute

SpecDist == InitDist /\ [][NextDist]_vars

(* ------------------------- two requests at once ----------------------- *)

\* The state of the invocation of the handler that is running.
HandlerState ==
  [req |-> req, script |-> script, pc |-> pc, params |-> params,
   strategy |-> strategy, attempt |-> attempt, maxRetries |-> maxRetries,
   lastError |-> lastError, prompt |-> prompt, loopIdx |-> loopIdx,
   batchSize |-> batchSize, numBatches |-> numBatches, acc |-> acc,
   questions |-> questions, response |-> response, nResponses |-> nResponses,
   generationError |-> generationError, calls |-> calls, fetches |-> fetches,
   lastWait |-> lastWait, distTotal |-> distTotal,
   distribution |-> distribution]

\* The state of an invocation for body r that has not run yet.
FreshState(r, sc) ==
  [req |-> r, script |-> sc, pc |-> "received", params |-> NoParams,
   strategy |-> "none", attempt |-> 0, maxRetries |-> 0,
   lastError |-> NoError, prompt |-> NoPrompt, loopIdx |-> 0,
   batchSize |-> 0, numBatches |-> 0, acc |-> <<>>, questions |-> <<>>,
   response |-> NoResponse, nResponses |-> 0, generationError |-> NoError,
   calls |-> 0, fetches |-> 0, lastWait |-> 0, distTotal |-> 0,
   distribution |-> ZeroDistribution]

\* Variant: allQuestions / results is one array shared by all invocations.
InstallSharedAcc(st) ==
  /\ req' = st.req /\ script' = st.script /\ pc' = st.pc
  /\ params' = st.params /\ strategy' = st.strategy /\ attempt' = st.attempt
  /\ maxRetries' = st.maxRetries /\ lastError' = st.lastError
  /\ prompt' = st.prompt /\ loopIdx' = st.loopIdx
  /\ batchSize' = st.batchSize /\ numBatches' = st.numBatches
  /\ UNCHANGED acc /\ questions' = st.questions /\ response' = st.response
  /\ nResponses' = st.nResponses /\ generationError' = st.generationError
  /\ calls' = st.calls /\ fetches' = st.fetches /\ lastWait' = st.lastWait
  /\ distTotal' = st.distTotal /\ distribution' = st.distribution

\* The invocation whose state is st becomes the running one.
Install(st) ==
  /\ req' = st.req /\ script' = st.script /\ pc' = st.pc
  /\ params' = st.params /\ strategy' = st.strategy /\ attempt' = st.attempt
  /\ maxRetries' = st.maxRetries /\ lastError' = st.lastError
  /\ prompt' = st.prompt /\ loopIdx' = st.loopIdx
  /\ batchSize' = st.batchSize /\ numBatches' = st.numBatches
  /\ acc' = st.acc /\ questions' = st.questions /\ response' = st.response
  /\ nResponses' = st.nResponses /\ generationError' = st.generationError
  /\ calls' = st.calls /\ fetches' = st.fetches /\ lastWait' = st.lastWait
  /\ distTotal' = st.distTotal /\ distribution' = st.distribution

\* Where an invocation may be suspended: not yet started, awaiting the model
\* call, a backoff timer or a pacing delay, or finished.
SuspensionPoints == {"received", "attempt", "backoff", "pacing", "done"}

PairRequests ==
  {Request(CountNumber(SequentialThreshold + 1), "full-test",
           Undefined, Undefined, Undefined, YearUnset),
   Request(CountNumber(SingleCallLimit + 1), "subject-test",
           "Biology", Undefined, Undefined, YearUnset),
   Request(CountNumber(5), "subject-test", "chemistry", Undefined, Undefined, YearUnset)}

PairScripts ==
  {<<AnswerEntry("faithful")>>,
   <<ErrorEntry(TimeoutError), AnswerEntry("faithful")>>,
   <<EmptyEntry, AnswerEntry("flawed")>>,
   <<ErrorEntry(StatusError)>>}

\* A request is first served alone; the same request arrives again later,
\* together with another request.
InitPair ==
  /\ nodeEnv = "production" /\ geminiApiKey = TRUE
  /\ req \in PairRequests /\ script \in PairScripts
  /\ pc = "received" /\ Idle
  /\ self = 0 /\ reference = NoResponse
  /\ other \in {FreshState(r, sc) : r \in PairRequests, sc \in PairScripts}

\* The request has been served alone; it arrives again, as request 1.
Resend ==
  /\ self = 0 /\ pc = "done"
  /\ reference' = response
  /\ self' = 1
  /\ Install(FreshState(req, script))
  /\ UNCHANGED <<nodeEnv, geminiApiKey, other>>

\* The running invocation is suspended and the event loop resumes the other.
Switch ==
  /\ self \in {1, 2}
  /\ pc \in SuspensionPoints
  /\ other.pc # "done"
  /\ self' = 3 - self
  /\ other' = HandlerState
  /\ Install(other)
  /\ UNCHANGED <<nodeEnv, geminiApiKey, reference>>

NextPair ==
  \/ ValidateRequest
  \/ SelectStrategy
  \/ NextSubject
  \/ NextBatch
  \/ PacingDelay
  \/ CallReturnsQuestions
  \/ CallReturnsEmpty
  \/ CallFails
  \/ BackoffWait
  \/ Respond
  \/ Resend
  \/ Switch

SpecPair == InitPair /\ [][NextPair]_vars

(* ----------------------------- large requests ------------------------- *)

\* Requests of up to 180 questions, in each of the three strategies.
LargeRequests ==
  {Request(CountNumber(MaxCount), "full-test", Undefined, Undefined, Undefined,
           Year2010s),
   Request(CountNumber(MaxCount), "topic-test", Undefined, Undefined, "Enzymes",
           YearUnset)}
  \cup {Request(CountNumber(n), "subject-test", "Biology", Undefined, Undefined,
                YearUnset) : n \in {90, 91, 151, MaxCount}}

LargeScripts ==
  {<<AnswerEntry("faithful")>>,
   <<SurplusEntry>>,
   <<ErrorEntry(TimeoutError), AnswerEntry("faithful")>>,
   <<EmptyEntry, AnswerEntry("flawed")>>,
   <<EmptyEntry, ErrorEntry(ParseError)>>,
   <<ErrorEntry(StatusError), EmptyEntry>>,
   <<EmptyEntry, EmptyEntry, AnswerEntry("faithful")>>,
   <<ErrorEntry(TimeoutError), ErrorEntry(ParseError), ErrorEntry(StatusError)>>,
   <<AnswerEntry("noyear")>>}

\* The requests of Init with any answers, and the large requests with the
\* answers of a script.
InitLarge ==
  /\ nodeEnv \in {"test", "production"}
  /\ geminiApiKey \in BOOLEAN
  /\ ServerStarted
  /\ \/ req \in Requests /\ script = NoScript
     \/ req \in LargeRequests /\ script \in LargeScripts /\ nodeEnv = "production"
  /\ self = 1 /\ other = NoOther /\ reference = NoResponse
  /\ pc = "received"
  /\ Idle

SpecLarge == InitLarge /\ [][Next]_vars

\* The large requests with the answers of a script, and the requests of Init
\* of at most MaxLiveCount questions with any answers.
InitLive ==
  /\ InitLarge
  /\ script = NoScript => req.count.val <= MaxLiveCount

\* Every Model Client call returns or fails and every timer fires, so the
\* event loop always runs the continuation that is ready.
SpecLive == InitLive /\ [][Next]_vars /\ WF_vars(Next)

(* ------------- validateAndFilterQuestions on its own ------------------ *)

\* A well-formed candidate at the limits the validator accepts.
EdgeCandidate ==
  [GoodCandidate("Botany") EXCEPT
     !.qLen = MinQuestionLength, !.opts = <<1, 1, 1, 1>>, !.answer = "D"]

ValidatorCandidates ==
  {GoodCandidate("Biology"), EdgeCandidate, NullCandidate}
  \cup {BadCandidates[i] : i \in 1..Len(BadCandidates)}

\* The arguments validateAndFilterQuestions is called with.
ValidatorInputs ==
  {NonArrayInput}
  \cup {ArrayInput(s) : s \in UNION {[1..n -> ValidatorCandidates] : n \in 0..MaxInput}}

InitValidate ==
  /\ nodeEnv = "test" /\ geminiApiKey = TRUE
  /\ script = NoScript /\ self = 1 /\ other = NoOther /\ reference = NoResponse
  /\ req = Request(Count("undefined", 0), Undefined, Undefined, Undefined,
                   Undefined, YearUnset)
  /\ pc = "filter"
  /\ params = NoParams /\ strategy = "none"
  /\ attempt = 0 /\ maxRetries = 0 /\ lastError = NoError /\ prompt = NoPrompt
  /\ loopIdx = 0 /\ batchSize = 0 /\ numBatches = 0 /\ acc = <<>>
  /\ questions \in ValidatorInputs
  /\ response = NoResponse /\ nResponses = 0 /\ generationError = NoError
  /\ calls = 0 /\ fetches = 0 /\ lastWait = 0
  /\ distTotal = 0 /\ distribution = ZeroDistribution

\* acc = validateAndFilterQuestions(questions)
Filter ==
  /\ pc = "filter"
  /\ acc' = validateAnyInput(questions)
  /\ pc' = "filtered"
  /\ UNCHANGED <<envVars, params, strategy, retryVars, loopIdx, batchSize,
                 numBatches, questions, outVars, callVars, lastWait, distVars>>

NextValidate == Filter

SpecValidate == InitValidate /\ [][NextValidate]_vars

(* ================================ claims ============================== *)

Abs(x) == IF x < 0 THEN -x ELSE x

Distributed == pc = "distributed"

\* C1: calculateDistribution(total) returns five non-negative integer shares
\* whose sum is exactly total, for every total in 0..180.
DistributionSumsToTotal ==
  Distributed =>
    /\ DOMAIN distribution = {"biology", "chemistry", "physics", "english", "logical"}
    /\ \A k \in DOMAIN distribution : distribution[k] \in Nat
    /\ distribution.biology + distribution.chemistry + distribution.physics
         + distribution.english + distribution.logical = distTotal

\* A total whose floors leave four units to hand out.
DistributionWitness ==
  /\ Distributed /\ distTotal = 179
  /\ distribution.english = 9 /\ distribution.logical = 8

\* C2 as stated: for total in 100..180 every share deviates from
\* total * percentage by less than 1 (in hundredths: by less than 100).
DeviationBelowOne ==
  (Distributed /\ distTotal >= 100) =>
    \A k \in DOMAIN distribution :
      Abs(100 * distribution[k] - distTotal * Percentage[k]) < 100

\* C2 amended: for total in 100..180 every share deviates from
\* total * percentage by at most 1.
DeviationAtMostOne ==
  (Distributed /\ distTotal >= 100) =>
    \A k \in DOMAIN distribution :
      Abs(100 * distribution[k] - distTotal * Percentage[k]) <= 100

\* total = 104: chemistry is exactly 26 by percentage and receives a unit.
DeviationWitness ==
  /\ Distributed /\ distTotal = 104
  /\ distribution.chemistry = 27

Answered(status) == pc = "done" /\ response.status = status

\* C3: a 200 response to a request with count c holds at least 1 and at
\* most c questions, in every strategy and for every answer of the model.
ResponseWithinCount ==
  Answered(200) =>
    /\ Len(response.questions) >= 1
    /\ Len(response.questions) <= req.count.val

\* The positions of `questions` that pass validation, and their rank.
ValidPositions == {j \in 1..Len(questions) : IsValidQuestion(questions[j])}
Rank(j) == Cardinality({m \in ValidPositions : m <= j})

\* C4: in a 200 response the question at position i has id i, the ids are
\* 1..n without gaps, the questions are the candidates that passed validation
\* in their order, and an id supplied by the model is overridden.
IdsFollowOrder ==
  Answered(200) =>
    /\ Len(response.questions) = Cardinality(ValidPositions)
    /\ \A i \in 1..Len(response.questions) :
         response.questions[i].id = i /\ "id" \in response.questions[i].has
    /\ \A j \in ValidPositions :
         [response.questions[Rank(j)] EXCEPT
            !.id = questions[j].id, !.has = questions[j].has] = questions[j]

\* A survivor that brought its own id and stands behind a dropped candidate.
IdsWitness ==
  /\ Answered(200)
  /\ \E j \in ValidPositions :
       /\ "id" \in questions[j].has /\ questions[j].id > Len(questions)
       /\ Rank(j) < j
       /\ response.questions[Rank(j)].id = Rank(j)

\* C5: every question of a 200 response to a subject-test with a valid
\* selectedSubject S has a subject case-insensitively equal to S.
SubjectTestOnlySubject ==
  (Answered(200) /\ req.testFormat = "subject-test" /\ ~Falsy(req.selectedSubject)) =>
    \A i \in 1..Len(response.questions) :
      toLowerCase(response.questions[i].subject) = toLowerCase(req.selectedSubject)

\* C6: every question of a 200 response has one of the five canonical
\* subject names.
CanonicalSubjects ==
  Answered(200) =>
    \A i \in 1..Len(response.questions) :
      response.questions[i].subject \in
        {"Biology", "Chemistry", "Physics", "English", "Logical Reasoning"}

\* count is missing, not a number, below 1 or above 180.
CountOutOfRange ==
  \/ req.count.type # "number"
  \/ req.count.val < 1
  \/ req.count.val > 180

\* C7: a request whose count is missing, not a number, below 1 or above 180
\* is answered 400 with an error naming the range 1..180, and no model call
\* is ever issued for it.
BadCountRejected ==
  CountOutOfRange =>
    /\ calls = 0 /\ fetches = 0
    /\ pc \in {"received", "done"}
    /\ pc = "done" =>
         /\ response.status = 400 /\ nResponses = 1
         /\ Includes(response.error, "1") /\ Includes(response.error, "180")

\* A count that is a string holding a number in range.
BadCountWitness ==
  /\ Answered(400) /\ req.count.type = "string"
  /\ req.testFormat = "subject-test"

\* C8: count 0 or 300 is answered 400 with an error containing the text
\* `Question count must be between`.
BadCountMessage ==
  (pc = "done" /\ req.count \in {CountNumber(0), CountNumber(300)}) =>
    /\ response.status = 400
    /\ Contains(response.error, <<"Question", "count", "must", "be", "between">>)

\* The topics that are absent, empty or only whitespace.
BlankTopic == req.topic \in {Undefined, "", " ", "   "}

\* C9: a topic-test with a valid count and an absent, empty or blank topic is
\* answered 400 with the topic-required error, and no model call is issued.
BlankTopicRejected ==
  (~CountOutOfRange /\ req.testFormat = "topic-test" /\ BlankTopic) =>
    /\ calls = 0 /\ fetches = 0
    /\ pc \in {"received", "done"}
    /\ pc = "done" =>
         /\ response.status = 400
         /\ response.error = <<"Topic", "is", "required", "for", "topic-test", "format">>

BlankTopicWitness ==
  /\ Answered(400) /\ req.testFormat = "topic-test"
  /\ req.count.val = 180 /\ req.topic = "   "

\* The subject of a request: selectedSubject, or the alias when selectedSubject
\* is absent (not sent, or sent empty).
RequestedSubject ==
  IF req.selectedSubject \in {Undefined, ""} THEN req.subject ELSE req.selectedSubject

SubjectUnknown ==
  \/ RequestedSubject \in {Undefined, ""}
  \/ toLowerCase(RequestedSubject) \notin
       {"biology", "chemistry", "physics", "english", "logical"}

\* C10: a subject-test with a valid count is answered 400, without a model
\* call, exactly when its subject is missing or matches none of the five keys
\* case-insensitively; an accepted subject is never refused by buildPrompt.
SubjectTestValidation ==
  (~CountOutOfRange /\ req.testFormat = "subject-test") =>
    /\ SubjectUnknown => (calls = 0 /\ pc \in {"received", "done"})
    /\ pc = "done" => (response.status = 400 <=> SubjectUnknown)
    /\ pc \notin {"received", "done"} => ~BuildPromptThrows(params)
    /\ ~Contains(response.error, <<"Invalid", "subject:">>)

\* The alias is used and accepted; an unknown subject is refused.
SubjectTestWitness ==
  /\ Answered(200) /\ req.testFormat = "subject-test"
  /\ req.selectedSubject = "" /\ req.subject = "physics"
  /\ params.selectedSubject = "physics" /\ calls > 0


\* The handler caught err around generation and has answered.
Caught(err) == pc = "done" /\ generationError = err

\* C11: when the failure that propagates out of generation is the 45-second
\* timeout of the final attempt of a single-call strategy, the response is
\* 408, never 503 or 500.
TimeoutAnswered408 ==
  Caught(TimeoutError) => response.status = 408 /\ response.error = TimeoutResponseError

\* All three attempts of a single call were made and the last one timed out.
TimeoutWitness ==
  /\ Caught(TimeoutError) /\ strategy = "single"
  /\ calls = DefaultMaxRetries /\ response.status = 408

\* The errors callGeminiAPI throws for a non-success upstream status.
UpstreamStatusErrors == {StatusError} \cup {UpstreamError(t) : t \in UpstreamTexts}

\* C12: when the failure that propagates out of generation is a non-success
\* upstream status, the response is 503, whatever the upstream status code
\* and error message text.
UpstreamFailureAnswered503 ==
  (pc = "done" /\ generationError \in UpstreamStatusErrors) => response.status = 503


\* The subject loop or the batch loop has run to its end.
LoopCompleted ==
  IF strategy = "sequential" THEN loopIdx > Len(SubjectKeys)
  ELSE loopIdx >= numBatches \/ Len(acc) >= params.questionCount

SomeValid(list) == \E i \in 1..Len(list) : IsValidQuestion(list[i])

HasSubject(list, name) == \E i \in 1..Len(list) : list[i].subject = name

\* C13: in the sequential and batched strategies no failure of a sub-call
\* reaches the handler: the loop goes on over the remaining subjects or
\* batches, and the request is answered 200 when some candidate of the
\* combined list passes validation and 500 only when none does.
SubCallFailuresAbsorbed ==
  strategy \in {"sequential", "batched"} =>
    /\ generationError = NoError
    /\ pc = "done" =>
         /\ LoopCompleted
         /\ response.status \in {200, 500}
         /\ response.status = 200 <=> SomeValid(questions)
         /\ response.status = 500 => response.error = NoValidResponseError

\* The Biology sub-call failed (a sub-call that succeeds leaves at least one
\* Biology question), Chemistry was still attempted, and the answer is 200.
SubCallFailedWitness ==
  /\ strategy = "sequential" /\ pc = "done" /\ response.status = 200
  /\ nodeEnv = "production"
  /\ ~HasSubject(response.questions, "Biology")
  /\ HasSubject(response.questions, "Chemistry")


\* The stub question, possibly with the subject the sequential loop stamped.
IsStub(q) == [q EXCEPT !.subject = "Biology"] = StubQuestions[1]

\* C14: in test mode every callGeminiAPI call returns the fixed one-question
\* stub, for every prompt, with no outbound fetch and whether or not the API
\* key is set: no call fails, and every call adds exactly the stub to what
\* the strategy has collected.
TestModeStub ==
  nodeEnv = "test" =>
    /\ fetches = 0
    /\ lastError = NoError /\ generationError = NoError /\ pc # "backoff"
    /\ strategy = "single" =>
         /\ calls <= 1
         /\ calls = 1 => questions = StubQuestions
    /\ strategy \in {"sequential", "batched"} =>
         /\ Len(acc) = calls
         /\ \A i \in 1..Len(acc) : IsStub(acc[i])

\* A batched request served in test mode without the key: three calls.
TestModeWitness ==
  /\ nodeEnv = "test" /\ ~geminiApiKey
  /\ strategy = "batched" /\ pc = "done" /\ response.status = 200
  /\ calls = 3 /\ fetches = 0


\* The request is a full test of more than 30 questions that passed validation.
LargeFullTest ==
  /\ ~CountInvalid(req.count)
  /\ ParamsOf(req).testFormat = "full-test"
  /\ req.count.val > SequentialThreshold

PositiveShares == {k \in DOMAIN distribution : distribution[k] > 0}

\* C16: a full test of more than 30 questions takes the sequential strategy
\* and issues a Retry-wrapped model call for every subject with a positive
\* share, so it makes at least as many model calls as there are such subjects.
SequentialCallsEverySubject ==
  (LargeFullTest /\ pc = "done") =>
    /\ strategy = "sequential"
    /\ calls >= Cardinality(PositiveShares)


CanonicalSet == {CanonicalNames[k] : k \in 1..Len(CanonicalNames)}

\* Position of a canonical subject name in the priority order.
SubjectIndex(name) == CHOOSE k \in 1..Len(CanonicalNames) : CanonicalNames[k] = name

BlockSize(list, k) ==
  Cardinality({i \in 1..Len(list) : list[i].subject = CanonicalNames[k]})

\* list is made of per-subject blocks in priority order, none above its share.
InBlocks(list) ==
  /\ \A i \in 1..Len(list) : list[i].subject \in CanonicalSet
  /\ \A i, j \in 1..Len(list) :
       i < j => SubjectIndex(list[i].subject) <= SubjectIndex(list[j].subject)
  /\ \A k \in 1..Len(CanonicalNames) :
       BlockSize(list, k) <= distribution[SubjectKeys[k]]

\* C17: in the sequential strategy the list is a concatenation of per-subject
\* blocks in the order Biology, Chemistry, Physics, English, Logical
\* Reasoning; what a subject's call adds carries that subject's canonical
\* name whatever the model returned; no block exceeds its subject's share;
\* and that list is what the strategy returns.
SequentialBlocks ==
  [][strategy' = "sequential" =>
       /\ InBlocks(acc')
       /\ Len(acc') >= Len(acc)
       /\ \A i \in (Len(acc) + 1)..Len(acc') :
            acc'[i].subject = CanonicalNames[loopIdx]
       /\ pc' \in {"validate", "done"} => questions' = acc' /\ InBlocks(questions')
       /\ InBlocks(response'.questions)]_vars

\* Four full blocks: every subject call returned at least its share.
SequentialBlocksWitness ==
  /\ strategy = "sequential" /\ pc = "done" /\ response.status = 200
  /\ nodeEnv = "production"
  /\ \A k \in 1..4 : BlockSize(response.questions, k) = distribution[SubjectKeys[k]]


\* The prompt of the sub-call the loop is at.
LoopPrompt ==
  IF strategy = "sequential"
    THEN buildPrompt(SubjectParams(params, loopIdx, distribution))
    ELSE buildPrompt([params EXCEPT !.questionCount =
                        Min(batchSize, params.questionCount - Len(acc))])

\* C18: the model calls of a request are made one at a time, each from the
\* one awaited call site; the loops walk the subjects in priority order and
\* the batches in index order, one index at a time, every call carrying the
\* prompt of the index the loop is at; and every result is appended behind
\* what was collected before.
CallsStrictlySequential ==
  [][/\ calls' \in {calls, calls + 1}
     /\ calls' = calls + 1 =>
          /\ pc = "attempt"
          /\ strategy \in {"sequential", "batched"} => prompt = LoopPrompt
          /\ pc' = "attempt" => loopIdx' = loopIdx /\ prompt' = prompt /\ acc' = acc
     /\ loopIdx' \in {loopIdx, loopIdx + 1}
     /\ Len(acc') >= Len(acc)
     /\ SubSeq(acc', 1, Len(acc)) = acc]_vars

\* Three batches were answered one after the other.
SequentialCallsWitness ==
  /\ strategy = "batched" /\ pc = "done" /\ nodeEnv = "production"
  /\ loopIdx >= 2 /\ calls >= 3 /\ Len(acc) >= 3
  /\ acc[1].id # acc[Len(acc)].id


\* Number of the first rule of the claim that the parameters match.
FirstRule(p) ==
  IF p.testFormat = "topic-test" /\ p.topic \notin {Undefined, ""} THEN 1
  ELSE IF p.testFormat = "subject-test" /\ p.selectedSubject \notin {Undefined, ""}
          /\ p.questionCount <= SingleCallLimit THEN 2
  ELSE IF p.testFormat = "full-test" /\ p.questionCount > SequentialThreshold THEN 3
  ELSE IF p.questionCount <= SingleCallLimit THEN 4
  ELSE 5

\* Generation has been entered and its strategy chosen.
Generating == pc \notin {"received", "generate"} /\ params # NoParams

\* C19: the strategy follows the first matching rule: topic-test with a
\* topic, one Retry-wrapped call of up to 3 attempts whatever the count;
\* subject-test with a subject and count <= 35, one Retry-wrapped call;
\* full-test with count > 30, sequential, also for 31..35; any other request
\* with count <= 35, one Retry-wrapped call; otherwise batching.
StrategyByFirstRule ==
  Generating =>
    /\ FirstRule(params) \in {1, 2, 4} =>
         /\ strategy = "single"
         /\ maxRetries \in {0, DefaultMaxRetries}
         /\ attempt <= DefaultMaxRetries /\ calls <= DefaultMaxRetries
         /\ calls > 0 => prompt = buildPrompt(params)
         /\ loopIdx = 0 /\ numBatches = 0 /\ acc = <<>> /\ distTotal = 0
    /\ FirstRule(params) = 3 =>
         /\ strategy = "sequential"
         /\ distTotal = params.questionCount /\ loopIdx >= 1 /\ numBatches = 0
    /\ FirstRule(params) = 5 =>
         /\ strategy = "batched"
         /\ numBatches > 0 /\ batchSize > 0 /\ distTotal = 0

\* A full test of 31 questions, within the single-call limit, went sequential.
StrategyWitness ==
  /\ pc = "done" /\ response.status = 200
  /\ params.testFormat = "full-test"
  /\ params.questionCount > SequentialThreshold
  /\ params.questionCount <= SingleCallLimit
  /\ strategy = "sequential" /\ calls >= 4


\* The request is a subject test with a valid subject and count <= 35.
SmallSubjectTest ==
  /\ ValidationError(req) = NoError
  /\ ParamsOf(req).testFormat = "subject-test"
  /\ req.count.val <= SingleCallLimit

\* C20: a subject-test request with a valid subject and count <= 35 causes
\* exactly one callGeminiAPI call.
SubjectTestOneCall == (SmallSubjectTest /\ pc = "done") => calls = 1

\* C20, amended: such a request causes exactly one Retry-wrapped call, which
\* is one to three callGeminiAPI calls with the same prompt, one per attempt,
\* and a single call when the first attempt returns questions.
SubjectTestOneWrappedCall ==
  (SmallSubjectTest /\ Generating) =>
    /\ strategy = "single"
    /\ maxRetries = DefaultMaxRetries
    /\ prompt = buildPrompt(params)
    /\ calls <= DefaultMaxRetries
    /\ calls = IF pc = "attempt" THEN attempt - 1 ELSE attempt
    /\ pc = "done" => calls >= 1
    /\ nodeEnv = "test" => calls <= 1

\* Two attempts failed or came back empty, the third returned questions.
SubjectTestWrappedWitness ==
  /\ SmallSubjectTest /\ pc = "done" /\ response.status = 200
  /\ calls = DefaultMaxRetries


\* C15: a request served together with another request, whatever that one
\* is and however the two interleave at their suspension points, gets the
\* status and the question list it got when it was served alone with the
\* same answers of the upstream to its calls.
RequestsIndependent ==
  (self = 1 /\ pc = "done") =>
    /\ response.status = reference.status
    /\ response.questions = reference.questions

\* Request 1 has finished while request 2 is in the middle of its calls.
IndependentWitness ==
  /\ self = 1 /\ pc = "done" /\ response.status = 200 /\ calls >= 2
  /\ other.pc \in {"attempt", "backoff", "pacing"} /\ other.calls >= 1
  /\ other.req # req


\* A batch is issued: the batch loop enters the Retry wrapper.
BatchIssued == pc = "batch" /\ pc' = "attempt"

\* C21: in the batched strategy batchSize is min(30, ceil(count/3)); a batch
\* is issued only while fewer than ceil(count/batchSize) batches were issued
\* and fewer than count candidates are accumulated; it asks for
\* min(batchSize, count - accumulated) questions through a 2-attempt
\* Retry-wrapped call; and the result is the first count accumulated
\* candidates.
BatchedAsSized ==
  [][strategy' = "batched" =>
       /\ batchSize' = Min(MaxBatchSize, Ceil(params.questionCount, BatchDivisor))
       /\ numBatches' = Ceil(params.questionCount, batchSize')
       /\ BatchIssued =>
            /\ loopIdx < numBatches
            /\ Len(acc) < params.questionCount
            /\ prompt'.questionCount =
                 Min(batchSize, params.questionCount - Len(acc))
            /\ maxRetries' = SubCallMaxRetries
       /\ calls' <= SubCallMaxRetries * numBatches'
       /\ pc' \in {"validate", "done"} =>
            /\ Len(questions') = Min(params.questionCount, Len(acc'))
            /\ questions' = SubSeq(acc', 1, Len(questions'))]_vars

\* The last batch asked for the remaining need only, the batches returned
\* more than count candidates in all, and the surplus was cut off.
BatchedWitness ==
  /\ strategy = "batched" /\ pc = "done" /\ response.status = 200
  /\ batchSize = MaxBatchSize
  /\ prompt.questionCount < batchSize
  /\ Len(acc) > params.questionCount
  /\ Len(questions) = params.questionCount


\* The script's answer to call number n of the request.
EntryAt(n) == script[((n - 1) % Len(script)) + 1]

\* The entry is a non-empty array of candidates.
Productive(e) == e.error = NoError /\ e.pattern # "empty"

\* The first of the attempts 1..n the script answers with a non-empty array.
FirstProductive(n) ==
  LET ks == {k \in 1..n : Productive(EntryAt(k))}
  IN  IF ks = {} THEN 0 ELSE CHOOSE k \in ks : \A j \in ks : k <= j

\* C22: every attempt of callGeminiAPIWithRetry is one callGeminiAPI call;
\* attempt k <= N is made only after attempts 1..k-1 came back empty or
\* failed; and the wrapper returns the first non-empty result at once, after
\* exactly k calls (empty, empty, non-empty with N = 3: 3 calls).
ReturnsFirstResult ==
  [][/\ calls' = IF pc = "attempt" THEN calls + 1 ELSE calls
     /\ pc = "attempt" => attempt <= maxRetries /\ attempt' \in {attempt, attempt + 1}
     /\ (pc = "attempt" /\ Len(acc') > Len(acc)) => attempt' = attempt /\ pc' # "attempt"
     /\ (strategy = "single" /\ pc = "attempt" /\ pc' = "validate") =>
          /\ attempt' = attempt
          /\ calls' = attempt
          /\ questions' # <<>>
          /\ script # NoScript =>
               /\ attempt = FirstProductive(maxRetries)
               /\ questions' = ScriptedOutcome(EntryAt(attempt), prompt).result]_vars

\* Empty, empty, non-empty: a result after exactly three calls.
FirstResultWitness ==
  /\ script = <<EmptyEntry, EmptyEntry, AnswerEntry("faithful")>>
  /\ strategy = "single" /\ pc = "done" /\ response.status = 200
  /\ calls = DefaultMaxRetries
  /\ Len(response.questions) = MaxCount


\* C23: an attempt after the first begins only after the wrapper has waited
\* min(2^attempt * 1000, 10000) ms for the attempt that just ended, whether
\* that attempt failed or returned zero results.  (Stated for the single-call
\* strategy, where the backoff is the only timer of the request.)
EveryRetryWaited ==
  (strategy = "single" /\ pc = "attempt" /\ attempt > 1) =>
    lastWait = WaitTime(attempt - 1)


\* The error an attempt answered by entry e ends with, when it ends the wrapper.
ErrorOf(e) == IF e.error # NoError THEN e.error ELSE NoQuestionsError

\* The single-call strategy ended with an error thrown by the wrapper.
WrapperFailed == strategy = "single" /\ pc = "done" /\ generationError # NoError

\* C24: the wrapper never goes beyond attempt maxRetries, one call each; it
\* never returns an empty list; and when no attempt returned a non-empty
\* result it has made maxRetries calls and throws the error of the last
\* attempt, which is 'No valid questions generated after all attempts' when
\* the last attempt came back empty.
FailsWithLastError ==
  /\ attempt <= maxRetries
  /\ strategy = "single" => calls <= maxRetries
  /\ (strategy = "single" /\ pc = "validate") => questions # <<>>
  /\ WrapperFailed =>
       /\ calls = maxRetries
       /\ generationError \in CallErrors \cup {ParseError, NoQuestionsError}
       /\ script # NoScript =>
            /\ FirstProductive(maxRetries) = 0
            /\ generationError = ErrorOf(EntryAt(maxRetries))
  /\ (strategy = "single" /\ pc = "done" /\ script # NoScript
        /\ FirstProductive(DefaultMaxRetries) = 0) => WrapperFailed

\* Timeout, parse error, upstream status: the third error is the one thrown.
LastErrorWitness ==
  /\ script = <<ErrorEntry(TimeoutError), ErrorEntry(ParseError), ErrorEntry(StatusError)>>
  /\ WrapperFailed /\ generationError = StatusError
  /\ calls = DefaultMaxRetries /\ response.status = 503


\* The years the claim allows for a candidate that came without a year.
AllowedYears(yearRange) ==
  LET yrs == normalizeYearRange(yearRange)
  IN  IF yrs.isNull THEN DefaultYearStart..DefaultYearEnd ELSE yrs.start..yrs.end

\* In the model the candidates that come without a year come without a topic
\* too, so that the backfilled topic 'General' marks them in the response.
CameWithoutYear(q) == q.topic = "General"

\* C25: a candidate the model returned without a year carries a year in
\* 2018..2025 when the request has no year range, and a year inside the
\* requested window when it has one.
BackfilledYearInWindow ==
  (pc = "done" /\ response.status = 200) =>
    \A i \in 1..Len(response.questions) :
       CameWithoutYear(response.questions[i]) =>
         response.questions[i].year \in AllowedYears(req.yearRange)


\* The claim's condition for keeping a candidate.
Kept(q) ==
  /\ q.kind = "object"
  /\ {"question", "options", "answer", "subject"} \subseteq q.has
  /\ q.qIsString /\ q.qLen >= 10
  /\ q.optsIsArray /\ Len(q.opts) = 4 /\ \A i \in 1..4 : q.opts[i] >= 1
  /\ q.answer \in {"A", "B", "C", "D"}
  /\ q.subjIsString

KeptPositions(list) == {i \in 1..Len(list) : Kept(list[i])}

\* How many kept candidates stand at or before position i.
KeptRank(list, i) == Cardinality({j \in KeptPositions(list) : j <= i})

FloorRemainder == distTotal - SumShares([k \in SyllabusKeys |-> FloorShare(distTotal, k)])

\* C27: for every total in 0..180 the remainder total - sum of floors is in
\* 0..4, so every share is its floor or its floor plus 1, the priority list
\* is never walked a second time, and logical, the fifth in priority, keeps
\* its floor.
RemainderAtMostFour ==
  Distributed =>
    /\ FloorRemainder \in 0..4
    /\ FloorRemainder < Len(SubjectKeys)
    /\ \A k \in SyllabusKeys :
         distribution[k] - FloorShare(distTotal, k) \in {0, 1}
    /\ distribution.logical = FloorShare(distTotal, "logical")
    /\ SumShares(distribution) - distTotal = 0

\* A total with remainder 4 (total 19 is one): biology to english get a unit.
RemainderWitness ==
  /\ Distributed /\ FloorRemainder = 4
  /\ distribution.english = FloorShare(distTotal, "english") + 1
  /\ distribution.logical = FloorShare(distTotal, "logical")


\* The subjects or batches the loop of the request has begun so far.
LoopsBegun ==
  IF strategy = "sequential"
    THEN IF pc = "subject" THEN loopIdx - 1 ELSE Min(loopIdx, Len(SubjectKeys))
    ELSE IF pc = "batch" THEN loopIdx
         ELSE Min(loopIdx + 1, Ceil(params.questionCount, batchSize))

\* The calls of the subject or batch in progress: at most 2.
CallsOfLoopBounded ==
  /\ calls <= 2 * LoopsBegun
  /\ pc \in {"attempt", "backoff"} =>
       /\ maxRetries = 2 /\ attempt <= maxRetries
       /\ calls <= 2 * (LoopsBegun - 1) + attempt

\* The calls a request has issued stay within the bound of its strategy.
CallsBounded ==
  /\ strategy = "none" => calls = 0
  /\ strategy = "single" => calls <= 3
  /\ strategy = "sequential" => CallsOfLoopBounded /\ calls <= 10
  /\ strategy = "batched" =>
       /\ CallsOfLoopBounded
       /\ calls <= 2 * Ceil(params.questionCount, batchSize)
       /\ calls <= 12

\* C28: provided every Model Client call returns or fails, every request
\* issues a bounded number of model calls and then completes: at most 3 calls
\* in a single-call strategy, at most 2 per subject (10 in all) in the
\* sequential strategy, at most 2 * ceil(count/batchSize) (12 in all for
\* count <= 180) in the batched strategy.
BoundedCallsThenCompletes == []CallsBounded /\ <>(pc = "done")

\* A batched request of 6 batches completed after 2 calls in every batch.
BoundedCallsWitness ==
  /\ pc = "done" /\ strategy = "batched"
  /\ Ceil(params.questionCount, batchSize) = 6
  /\ calls = 12


ResponseStatuses == {200, 400, 408, 500, 503}

\* C29: every POST /api/generate-questions request receives exactly one
\* response, with a status in {200, 400, 408, 500, 503}, on every path
\* through request validation, generation, result validation and error
\* handling: never two responses, and no path ends without one.
ExactlyOneResponse ==
  /\ nResponses = IF pc = "done" THEN 1 ELSE 0
  /\ pc = "done" => response.status \in ResponseStatuses
  /\ pc # "done" => response = NoResponse /\ ENABLED Next

\* A generation error that is neither a timeout nor an API error was rethrown
\* to the outer catch, which sent the one response.
OneResponseWitness ==
  /\ pc = "done" /\ nResponses = 1
  /\ generationError # NoError
  /\ response.status = 500

\* The sum of the per-subject counts of a subjectDistribution.
RECURSIVE SumCounts(_)
SumCounts(d) ==
  IF DOMAIN d = {} THEN 0
  ELSE LET s == CHOOSE k \in DOMAIN d : TRUE
       IN  d[s] + SumCounts([k \in DOMAIN d \ {s} |-> d[k]])

\* C30: in every 200 response metadata.generated equals the number of
\* questions returned, metadata.requested equals the request's count, and
\* the per-subject counts of metadata.subjectDistribution sum to
\* metadata.generated.
MetadataConsistent ==
  Answered(200) =>
    /\ response.generated = Len(response.questions)
    /\ response.requested = req.count.val
    /\ SumCounts(response.subjectDistribution) = response.generated
====
